---- MODULE Spec2Model ----
(***************************************************************************)
(* Local SEO Editorial Planner (src/main.py): the password gate, the two   *)
(* TTL-cached DataForSEO fetchers, the content extractor, the post         *)
(* generator with its JSON / regex-fallback parsing, and the orchestrator  *)
(* loop that assembles the editorial plan.                                 *)
(*                                                                         *)
(* A Python str is a sequence of one-character strings.  A Python / JSON   *)
(* value is a tagged record [t, v]:                                        *)
(*   null  [t |-> "null", v |-> <<>>]      bool [t |-> "bool", v |-> b]    *)
(*   num   [t |-> "num",  v |-> n]         str  [t |-> "str",  v |-> seq]  *)
(*   arr   [t |-> "arr",  v |-> <<values>>]                                *)
(*   obj   [t |-> "obj",  v |-> << <<key, value>>, ... >>]  (text order)   *)
(* The outcome of a call is Ok(value) or Raise(exception name).            *)
(***************************************************************************)
EXTENDS Integers, Sequences, FiniteSets, TLC

VARIABLES
    authenticated,  \* st.session_state.authenticated
    pwd,            \* value of the password text input at the last click of "Entra"
    event,          \* what set off the last script run: "none", "entra" or "submit"
    screen,         \* what the last script run rendered: "none", "gate", "form", "plan", "exception"
    errorMsg,       \* text of st.error shown by the last script run ("" when none)
    pc,             \* position of the running script: "idle" between runs, else the pipeline step
    form,           \* the submitted form values of the current run
    topics,         \* topics (line 186)
    ti,             \* index of the topic the loop of line 192 is at
    serp,           \* serp (line 194)
    ri,             \* index of the result the loop of line 198 is at
    sources_text,   \* sources_text (line 196)
    sources_urls,   \* sources_urls (line 197)
    summary,        \* summary (line 202)
    rows,           \* rows (line 191)
    table,          \* the rows of the DataFrame shown by st.dataframe, or NoTable
    download,       \* TRUE when st.download_button was rendered by the last run
    hist,           \* history: per processed topic, what the search and the generator returned
    searched,       \* history: the queries of the current run's calls of get_serp_results
    raisedAt,       \* history: the step of the current run that raised, "" when none did
    steps,          \* history: the pipeline steps executed so far in this session
    runs,           \* history: how many times the form was submitted in this session
    now,            \* wall clock, seconds
    serpCache,      \* entries of st.cache_data for cached_serp
    contentCache,   \* entries of st.cache_data for cached_content_full
    log,            \* history: the calls made to get_serp_results
    serpCall,       \* history: the last call of get_serp_results, its response and its outcome
    exCall,         \* history: the last call of extract_text, its data and its outcome
    genCall         \* history: the last call of generate_posts, its response and its outcome

\* the script's locals, the session and what it shows
locals == << topics, ti, serp, ri, sources_text, sources_urls, summary, rows >>
appVars == << authenticated, pwd, event, screen, errorMsg, pc, form, locals,
              table, download, hist, searched, raisedAt, steps, runs >>
calls == << log, serpCall, exCall, genCall >>

vars == << appVars, now, serpCache, contentCache, calls >>

-----------------------------------------------------------------------------
(* Python values *)

Null == [t |-> "null", v |-> <<>>]
Num(n) == [t |-> "num", v |-> n]
Str(s) == [t |-> "str", v |-> s]
Arr(xs) == [t |-> "arr", v |-> xs]
Obj(kvs) == [t |-> "obj", v |-> kvs]

Ok(x) == [raised |-> FALSE, value |-> x]
Raise(e) == [raised |-> TRUE, exc |-> e]

Min(a, b) == IF a < b THEN a ELSE b
Max(a, b) == IF a < b THEN b ELSE a

\* bool(x)
Truthy(x) ==
    CASE x.t = "null" -> FALSE
      [] x.t = "bool" -> x.v
      [] x.t = "num" -> x.v # 0
      [] OTHER -> Len(x.v) > 0

\* k in d, for a dict d
HasKey(d, k) == \E i \in 1..Len(d.v) : d.v[i][1] = k

\* d[k] for a dict d that has k: json.loads keeps the last of duplicate keys
Lookup(d, k) ==
    LET i == CHOOSE j \in 1..Len(d.v) :
                 d.v[j][1] = k /\ \A m \in (j+1)..Len(d.v) : d.v[m][1] # k
    IN d.v[i][2]

\* x.get(k, default): AttributeError unless x is a dict
Get(x, k, default) ==
    IF x.t # "obj" THEN Raise("AttributeError")
    ELSE IF HasKey(x, k) THEN Ok(Lookup(x, k)) ELSE Ok(default)

\* x[k] with a string key k
SubKey(x, k) ==
    IF x.t = "obj" THEN (IF HasKey(x, k) THEN Ok(Lookup(x, k)) ELSE Raise("KeyError"))
    ELSE Raise("TypeError")

\* x[0]
SubZero(x) ==
    CASE x.t = "arr" -> IF Len(x.v) > 0 THEN Ok(x.v[1]) ELSE Raise("IndexError")
      [] x.t = "str" -> IF Len(x.v) > 0 THEN Ok(Str(<<x.v[1]>>)) ELSE Raise("IndexError")
      [] x.t = "obj" -> Raise("KeyError")
      [] OTHER -> Raise("TypeError")

\* k in x, as the code uses it on result[0] and items[0]
Contains(x, k) ==
    CASE x.t = "obj" -> Ok(HasKey(x, k))
      [] x.t = "arr" -> Ok(\E i \in 1..Len(x.v) : x.v[i] = Str(k))
      [] x.t = "str" -> Ok(\E i \in 1..(Len(x.v) - Len(k) + 1) : SubSeq(x.v, i, i + Len(k) - 1) = k)
      [] OTHER -> Raise("TypeError")

\* the elements a for loop over x visits; TypeError when x is not iterable
Iter(x) ==
    CASE x.t = "arr" -> Ok(x.v)
      [] x.t = "str" -> Ok([i \in 1..Len(x.v) |-> Str(<<x.v[i]>>)])
      [] x.t = "obj" -> Ok([i \in 1..Len(x.v) |-> Str(x.v[i][1])])
      [] OTHER -> Raise("TypeError")

-----------------------------------------------------------------------------
(* str *)

WS == {" ", "\n"}

RECURSIVE LStrip(_)
LStrip(s) == IF s # <<>> /\ Head(s) \in WS THEN LStrip(Tail(s)) ELSE s

RECURSIVE RStrip(_)
RStrip(s) == IF s # <<>> /\ s[Len(s)] \in WS THEN RStrip(SubSeq(s, 1, Len(s) - 1)) ELSE s

\* s.strip()
Strip(s) == RStrip(LStrip(s))

\* s.split(sep) for a one-character separator
RECURSIVE SplitOn(_, _, _)
SplitOn(s, sep, cur) ==
    IF s = <<>> THEN <<cur>>
    ELSE IF Head(s) = sep THEN <<cur>> \o SplitOn(Tail(s), sep, <<>>)
    ELSE SplitOn(Tail(s), sep, Append(cur, Head(s)))

Split(s, sep) == SplitOn(s, sep, <<>>)

\* sep.join(xs)
RECURSIVE Join(_, _)
Join(sep, xs) ==
    IF xs = <<>> THEN <<>>
    ELSE IF Len(xs) = 1 THEN xs[1]
    ELSE xs[1] \o sep \o Join(sep, Tail(xs))

\* s.startswith(p)
StartsWith(s, p) == Len(s) >= Len(p) /\ SubSeq(s, 1, Len(p)) = p

\* s[:n]
Prefix(s, n) == SubSeq(s, 1, Min(n, Len(s)))

-----------------------------------------------------------------------------
(* Literals of the source *)

K_status_code == <<"s","t","a","t","u","s","_","c","o","d","e">>
K_tasks == <<"t","a","s","k","s">>
K_result == <<"r","e","s","u","l","t">>
K_items == <<"i","t","e","m","s">>
K_type == <<"t","y","p","e">>
K_url == <<"u","r","l">>
K_page_content == <<"p","a","g","e","_","c","o","n","t","e","n","t">>
K_main_topic == <<"m","a","i","n","_","t","o","p","i","c">>
K_primary_content == <<"p","r","i","m","a","r","y","_","c","o","n","t","e","n","t">>
K_text == <<"t","e","x","t">>
K_posts == <<"p","o","s","t","s">>
ORGANIC == <<"o","r","g","a","n","i","c">>

HTTP_OK == 200
API_OK == 20000
TTL == 3600
SerpDepth == 5
MaxChars == 4000

\* self.encoded_credentials: base64 of "login:password" of the configured secrets,
\* one fixed token for the life of the process
encoded_credentials == <<"b","G","9","n","a","W","4","6","c","H","c","=">>

-----------------------------------------------------------------------------
(* st.cache_data(ttl=3600): a process-wide map from the call's arguments to  *)
(* the returned value, an entry living TTL seconds from the moment it is     *)
(* written.  A call that raises writes nothing.                              *)

\* entries dropped one second early
LiveShort(cache, t) == { e \in cache : t < e.written + TTL - 1 }

\* the entries that have not expired at time t
Live(cache, t) == { e \in cache : t < e.written + TTL }

CacheHit(cache, key, t) == \E e \in Live(cache, t) : e.key = key

CacheRead(cache, key, t) == (CHOOSE e \in Live(cache, t) : e.key = key).value

CacheWrite(cache, key, val, t) ==
    { e \in Live(cache, t) : e.key # key } \cup { [key |-> key, value |-> val, written |-> t] }

\* the cache after a call with `key` at time t whose function body gave `out`
CacheAfter(cache, key, out, t) ==
    IF CacheHit(cache, key, t) \/ out.raised THEN Live(cache, t)
    ELSE CacheWrite(cache, key, out.value, t)

-----------------------------------------------------------------------------
(* A response of requests.post: the call raises (kind "neterr"), or it      *)
(* returns a status and a body that is JSON text (isJson, data) or is not.  *)

NetErr == [kind |-> "neterr", status |-> 0, isJson |-> FALSE, data |-> Null]
Http(status, data) == [kind |-> "http", status |-> status, isJson |-> TRUE, data |-> data]
HttpRaw(status) == [kind |-> "http", status |-> status, isJson |-> FALSE, data |-> Null]

\* response.json()
ResponseJson(resp) == IF resp.isJson THEN Ok(resp.data) ELSE Raise("JSONDecodeError")

\* [r for r in results if r["type"] == "organic"], the elements in order;
\* the first r without a "type" raises
RECURSIVE OrganicOnly(_)
OrganicOnly(rs) ==
    IF rs = <<>> THEN Ok(<<>>)
    ELSE LET ty == SubKey(Head(rs), K_type)
         IN IF ty.raised THEN ty
            ELSE LET rest == OrganicOnly(Tail(rs))
                 IN IF rest.raised THEN rest
                    ELSE IF ty.value = Str(ORGANIC) THEN Ok(<<Head(rs)>> \o rest.value)
                    ELSE rest

\* data["tasks"][0]["result"][0]["items"]
SerpItems(data) ==
    LET a == SubKey(data, K_tasks) IN IF a.raised THEN a ELSE
    LET b == SubZero(a.value) IN IF b.raised THEN b ELSE
    LET c == SubKey(b.value, K_result) IN IF c.raised THEN c ELSE
    LET d == SubZero(c.value) IN IF d.raised THEN d ELSE
    SubKey(d.value, K_items)

\* cached_serp without the test of the API status code
cached_serp_any_status(resp, depth) ==
    IF resp.kind = "neterr" THEN Raise("ConnectionError")
    ELSE IF resp.status = HTTP_OK
    THEN LET data == ResponseJson(resp) IN IF data.raised THEN data ELSE
         LET results == SerpItems(data.value) IN IF results.raised THEN results ELSE
         LET it == Iter(results.value) IN IF it.raised THEN it ELSE
         LET org == OrganicOnly(it.value) IN IF org.raised THEN org ELSE
         Ok(Arr(Prefix(org.value, depth)))
    ELSE Ok(Arr(<<>>))

\* the body of cached_serp on the response `resp` of its POST
cached_serp(resp, depth) ==
    IF resp.kind = "neterr" THEN Raise("ConnectionError")
    ELSE IF resp.status = HTTP_OK
    THEN LET data == ResponseJson(resp) IN IF data.raised THEN data ELSE
         LET sc == Get(data.value, K_status_code, Null) IN IF sc.raised THEN sc ELSE
         IF sc.value = Num(API_OK)
         THEN LET results == SerpItems(data.value) IN IF results.raised THEN results ELSE
              LET it == Iter(results.value) IN IF it.raised THEN it ELSE
              LET org == OrganicOnly(it.value) IN IF org.raised THEN org ELSE
              Ok(Arr(Prefix(org.value, depth)))
         ELSE Ok(Arr(<<>>))
    ELSE Ok(Arr(<<>>))

\* the arguments cached_serp is called with by get_serp_results, the cache key
SerpKey(keyword) == <<keyword, encoded_credentials, SerpDepth>>

\* get_serp_results(keyword) at time t, `resp` being what the POST answers if
\* one is made: the outcome, the cache afterwards, and whether a POST was made
get_serp_results(cache, keyword, resp, t) ==
    LET key == SerpKey(keyword)
        hit == CacheHit(cache, key, t)
        out == IF hit THEN Ok(CacheRead(cache, key, t)) ELSE cached_serp(resp, SerpDepth)
    IN [out |-> out, cache |-> CacheAfter(cache, key, out, t), sent |-> ~hit]

-----------------------------------------------------------------------------
(* The search API's answers *)

U1 == <<"u","1">>
U2 == <<"u","2">>
U3 == <<"u","3">>
U4 == <<"u","4">>
U5 == <<"u","5">>
U6 == <<"u","6">>
PAID == <<"p","a","i","d">>

SerpItem(type, url) == Obj(<< <<K_type, Str(type)>>, <<K_url, Str(url)>> >>)

\* {"status_code": sc, "tasks": [{"result": [{"items": items}]}]}
SerpData(sc, items) ==
    Obj(<< <<K_status_code, sc>>,
           <<K_tasks, Arr(<< Obj(<< <<K_result, Arr(<< Obj(<< <<K_items, items>> >>) >>)>> >>) >>)>> >>)

TwoOrganic == Arr(<< SerpItem(ORGANIC, U1), SerpItem(PAID, U6), SerpItem(ORGANIC, U2) >>)
SixOrganic == Arr(<< SerpItem(ORGANIC, U1), SerpItem(ORGANIC, U2), SerpItem(ORGANIC, U3),
                     SerpItem(ORGANIC, U4), SerpItem(ORGANIC, U5), SerpItem(ORGANIC, U6) >>)

\* the shapes an answer's JSON body takes
SerpStatusCodes == { Num(API_OK), Num(40101), Str(<<"2","0","0","0","0">>), Null }
SerpItemLists ==
    { TwoOrganic, SixOrganic, Arr(<<>>), Null,
      Arr(<< Obj(<< <<K_url, Str(U1)>> >>) >>) }
SerpBodies ==
    { SerpData(sc, items) : sc \in SerpStatusCodes, items \in SerpItemLists }
    \cup { Arr(<<>>),
           Obj(<< <<K_tasks, Arr(<<>>)>> >>),
           Obj(<< <<K_status_code, Num(40200)>>, <<K_tasks, Null>> >>),
           Obj(<< <<K_status_code, Num(API_OK)>>,
                  <<K_tasks, Arr(<< Obj(<< <<K_result, Null>> >>) >>)>> >>) }
HttpStatuses == { HTTP_OK, 404, 500 }

SerpResponses ==
    { NetErr }
    \cup { HttpRaw(st) : st \in HttpStatuses }
    \cup { Http(st, d) : st \in HttpStatuses, d \in SerpBodies }

-----------------------------------------------------------------------------
(* Calls of get_serp_results over time *)

MaxCalls == 3

\* one answer of each kind: no answer, an HTTP error, an API error, results, more
\* results than the depth, and a success answer without a result
SerpAnswers ==
    { NetErr,
      HttpRaw(500),
      Http(HTTP_OK, SerpData(Num(40101), TwoOrganic)),
      Http(HTTP_OK, SerpData(Num(API_OK), TwoOrganic)),
      Http(HTTP_OK, SerpData(Num(API_OK), SixOrganic)),
      Http(HTTP_OK, SerpData(Num(API_OK), Null)) }
Keywords == { <<"a">>, <<"b">> }
ClockValues == {0, TTL - 1, TTL, 2 * TTL - 1, 2 * TTL}

NoResp == [kind |-> "none", status |-> 0, isJson |-> FALSE, data |-> Null]
NoCall == [made |-> FALSE]

\* what the log keeps of an outcome: the value, or that the call raised
Logged(out) == IF out.raised THEN Raise("exception") ELSE out

NoForm == [submitted |-> FALSE]
NoTable == [shown |-> FALSE, rows |-> <<>>]

\* no script running: its locals do not exist
NoLocals ==
    /\ topics = <<>> /\ ti = 0 /\ serp = <<>> /\ ri = 0
    /\ sources_text = <<>> /\ sources_urls = <<>> /\ summary = Null /\ rows = <<>>

\* a session that has not loaded the page
SessionStart ==
    /\ authenticated = FALSE /\ pwd = "" /\ event = "none" /\ screen = "none"
    /\ errorMsg = "" /\ pc = "idle" /\ form = NoForm /\ NoLocals
    /\ table = NoTable /\ download = FALSE /\ hist = <<>> /\ searched = <<>>
    /\ raisedAt = "" /\ steps = {} /\ runs = 0

SerpInit ==
    /\ SessionStart
    /\ now = 0 /\ serpCache = {} /\ contentCache = {}
    /\ log = <<>> /\ serpCall = NoCall /\ exCall = NoCall /\ genCall = NoCall

\* a session calls get_serp_results(keyword); the API would answer resp
GetSerp(keyword, resp) ==
    /\ Len(log) < MaxCalls
    /\ LET r == get_serp_results(serpCache, keyword, resp, now)
       IN /\ serpCache' = r.cache
          /\ log' = Append(log, [keyword |-> keyword, time |-> now, sent |-> r.sent,
                                 out |-> Logged(r.out)])
    /\ UNCHANGED << appVars, now, contentCache, serpCall, exCall, genCall >>

\* time passes, up to one of the instants in S
TickTo(S) ==
    /\ \E t \in S : t > now /\ now' = t
    /\ UNCHANGED << appVars, serpCache, contentCache, calls >>

Tick == TickTo(ClockValues)

SerpNext ==
    \/ \E k \in Keywords, resp \in SerpAnswers : GetSerp(k, resp)
    \/ Tick

SpecSerp == SerpInit /\ [][SerpNext]_vars

-----------------------------------------------------------------------------
(* One call of get_serp_results on each answer of the search API *)

SerpFnInit ==
    /\ SessionStart
    /\ now = 0 /\ serpCache = {} /\ contentCache = {}
    /\ log = <<>> /\ exCall = NoCall /\ genCall = NoCall
    /\ \E k \in Keywords, resp \in SerpResponses :
           serpCall = [made |-> FALSE, keyword |-> k, resp |-> resp]

CallSerp ==
    /\ ~serpCall.made
    /\ LET r == get_serp_results(serpCache, serpCall.keyword, serpCall.resp, now)
       IN /\ serpCache' = r.cache
          /\ serpCall' = [made |-> TRUE, keyword |-> serpCall.keyword,
                          resp |-> serpCall.resp, out |-> r.out]
    /\ UNCHANGED << appVars, now, contentCache, log, exCall, genCall >>

SerpFnNext == CallSerp

SpecSerpFn == SerpFnInit /\ [][SerpFnNext]_vars

-----------------------------------------------------------------------------
(* C2: caching of the search fetcher *)

SameQuery(i, j) == log[i].keyword = log[j].keyword

InWindow(i, j) == i < j /\ SameQuery(i, j) /\ log[j].time < log[i].time + TTL

\* C2 as stated: of two calls of get_serp_results with the same query (and the
\* process's credentials) less than TTL seconds apart, the first of which made
\* the request, the second makes no request and returns what the first returned
C2_OneRequestPerWindow ==
    \A i, j \in 1..Len(log) :
        (InWindow(i, j) /\ log[i].sent) =>
            (~log[j].sent /\ log[j].out = log[i].out)

\* C2, amended: the same, for a first call that returned (a call that raises
\* leaves no cache entry, and the next call makes a request again)
C2_OneRequestPerWindowOfReturnedCall ==
    \A i, j \in 1..Len(log) :
        (InWindow(i, j) /\ log[i].sent /\ ~log[i].out.raised) =>
            (~log[j].sent /\ log[j].out = log[i].out)

C2_Witness ==
    \E i, j, k \in 1..Len(log) :
        /\ InWindow(i, j) /\ log[i].sent /\ ~log[i].out.raised
        /\ log[j].time = log[i].time + TTL - 1
        /\ ~log[j].sent /\ log[j].out = log[i].out /\ Len(log[j].out.value.v) = 2
        /\ j < k /\ SameQuery(i, k) /\ log[k].time >= log[i].time + TTL /\ log[k].sent

-----------------------------------------------------------------------------
(* C3: failures of the search API *)

\* the answer has a non-200 HTTP status, or is a JSON object whose status_code
\* is not 20000
FailureAnswer(resp) ==
    /\ resp.kind = "http"
    /\ \/ resp.status # HTTP_OK
       \/ /\ resp.isJson /\ resp.data.t = "obj"
          /\ (HasKey(resp.data, K_status_code) => Lookup(resp.data, K_status_code) # Num(API_OK))

\* C3: on an answer with a non-200 HTTP status or a non-20000 API status code,
\* get_serp_results returns the empty list and does not raise
C3_FailureGivesEmpty ==
    (serpCall.made /\ FailureAnswer(serpCall.resp)) => serpCall.out = Ok(Arr(<<>>))

C3_Witness ==
    /\ serpCall.made /\ serpCall.resp.status = HTTP_OK /\ serpCall.resp.isJson
    /\ serpCall.resp.data = SerpData(Num(40101), TwoOrganic)
    /\ serpCall.out = Ok(Arr(<<>>))

-----------------------------------------------------------------------------
(* cached_content_full and extract_text *)

\* the body of cached_content_full on the response `resp` of its POST
cached_content_full(resp) ==
    IF resp.kind = "neterr" THEN Raise("ConnectionError")
    ELSE IF resp.status = HTTP_OK THEN ResponseJson(resp)
    ELSE Ok(Null)

ContentKey(url) == <<url, encoded_credentials>>

\* cached_content_full(url, credentials) at time t through st.cache_data
get_content(cache, url, resp, t) ==
    LET key == ContentKey(url)
        hit == CacheHit(cache, key, t)
        out == IF hit THEN Ok(CacheRead(cache, key, t)) ELSE cached_content_full(resp)
    IN [out |-> out, cache |-> CacheAfter(cache, key, out, t), sent |-> ~hit]

\* the inner loop of lines 95-97 over the elements cs, text being the text so far
RECURSIVE PrimaryText(_, _)
PrimaryText(cs, text) ==
    IF cs = <<>> THEN Ok(text)
    ELSE LET c == Head(cs) IN
         IF c.t = "obj" /\ Truthy(Get(c, K_text, Null).value)
         THEN LET tx == Lookup(c, K_text)
              IN IF tx.t = "str" THEN PrimaryText(Tail(cs), text \o tx.v \o <<" ">>)
                 ELSE Raise("TypeError")
         ELSE PrimaryText(Tail(cs), text)

\* the outer loop of lines 94-97 over the elements ts
RECURSIVE MainTopicText(_, _)
MainTopicText(ts, text) ==
    IF ts = <<>> THEN Ok(text)
    ELSE LET pcv == Get(Head(ts), K_primary_content, Arr(<<>>)) IN IF pcv.raised THEN pcv ELSE
         LET cs == Iter(pcv.value) IN IF cs.raised THEN cs ELSE
         LET tx == PrimaryText(cs.value, text) IN IF tx.raised THEN tx ELSE
         MainTopicText(Tail(ts), tx.value)

\* text, whole
NoCut(text) == text

\* text[:4000]
Cut(text) == Prefix(text, MaxChars)

\* lines 86-99 of extract_text on the value `data` of cached_content_full
extract_text(data) ==
    IF ~Truthy(data) THEN Ok(Str(<<>>)) ELSE
    LET sc == Get(data, K_status_code, Null) IN IF sc.raised THEN sc ELSE
    IF sc.value # Num(API_OK) THEN Ok(Str(<<>>)) ELSE
    LET result == Get(data, K_result, Arr(<<>>)).value IN
    IF ~Truthy(result) THEN Ok(Str(<<>>)) ELSE
    LET r0 == SubZero(result) IN IF r0.raised THEN r0 ELSE
    LET hasItems == Contains(r0.value, K_items) IN IF hasItems.raised THEN hasItems ELSE
    IF ~hasItems.value THEN Ok(Str(<<>>)) ELSE
    LET items == SubKey(r0.value, K_items) IN IF items.raised THEN items ELSE
    IF ~Truthy(items.value) THEN Ok(Str(<<>>)) ELSE
    LET i0 == SubZero(items.value) IN IF i0.raised THEN i0 ELSE
    LET hasPage == Contains(i0.value, K_page_content) IN IF hasPage.raised THEN hasPage ELSE
    IF ~hasPage.value THEN Ok(Str(<<>>)) ELSE
    LET page == SubKey(i0.value, K_page_content) IN IF page.raised THEN page ELSE
    LET mt == Get(page.value, K_main_topic, Arr(<<>>)) IN IF mt.raised THEN mt ELSE
    LET ts == Iter(mt.value) IN IF ts.raised THEN ts ELSE
    LET text == MainTopicText(ts.value, <<>>) IN IF text.raised THEN text ELSE
    Ok(Str(Cut(text.value)))

-----------------------------------------------------------------------------
(* The content-parsing API's answers *)

MaxFrags == 2

Rep(ch, n) == [i \in 1..n |-> ch]

\* sequences over S of length at most n
SeqsUpTo(S, n) == UNION { [1..m -> S] : m \in 0..n }

TextFrag(s) == Obj(<< <<K_text, Str(s)>> >>)

\* the elements a primary_content array holds
Frags ==
    { TextFrag(<<"x">>), TextFrag(Rep("y", MaxChars - 1)), TextFrag(Rep("z", MaxChars)),
      TextFrag(<<>>), Obj(<< <<K_text, Null>> >>), Obj(<<>>), Str(<<"x">>) }

PrimaryContents == { Arr(fs) : fs \in SeqsUpTo(Frags, MaxFrags) } \cup { Null }

Topic(pcv) == Obj(<< <<K_primary_content, pcv>> >>)

MainTopics ==
    { Arr(<< Topic(pcv) >>) : pcv \in PrimaryContents }
    \cup { Arr(<< Topic(Arr(<< f >>)), Topic(Arr(<< g >>)) >>) : f, g \in Frags }
    \cup { Null, Arr(<<>>), Arr(<< Obj(<<>>) >>), Arr(<< Null >>) }

PageContents ==
    { Obj(<< <<K_main_topic, mt>> >>) : mt \in MainTopics } \cup { Null, Obj(<<>>) }

ItemLists ==
    { Arr(<< Obj(<< <<K_page_content, pg>> >>) >>) : pg \in PageContents }
    \cup { Null, Arr(<<>>), Arr(<< Obj(<<>>) >>) }

Results ==
    { Arr(<< Obj(<< <<K_items, it>> >>) >>) : it \in ItemLists }
    \cup { Null, Arr(<<>>), Arr(<< Obj(<<>>) >>) }

ContentData(sc, result) == Obj(<< <<K_status_code, sc>>, <<K_result, result>> >>)

APage == Arr(<< Obj(<< <<K_items, Arr(<< Obj(<< <<K_page_content,
             Obj(<< <<K_main_topic, Arr(<< Topic(Arr(<< TextFrag(<<"x">>) >>)) >>)>> >>)>> >>) >>)>> >>) >>)

ContentBodies ==
    { ContentData(Num(API_OK), r) : r \in Results }
    \cup { ContentData(Num(40501), APage), Obj(<< <<K_status_code, Num(API_OK)>> >>),
           Obj(<< <<K_result, APage>> >>), Null, Arr(<<>>), Arr(<< Num(1) >>) }

ContentResponses ==
    { NetErr, HttpRaw(HTTP_OK), HttpRaw(500), Http(404, ContentData(Num(API_OK), APage)) }
    \cup { Http(HTTP_OK, d) : d \in ContentBodies }

-----------------------------------------------------------------------------
(* One call of extract_text on each answer of the content-parsing API *)

ExtractInit ==
    /\ SessionStart
    /\ now = 0 /\ serpCache = {} /\ contentCache = {}
    /\ log = <<>> /\ serpCall = NoCall /\ genCall = NoCall
    /\ \E resp \in ContentResponses : exCall = [made |-> FALSE, url |-> Str(U1), resp |-> resp]

\* extract_text(url): lines 85-99
CallExtract ==
    /\ ~exCall.made
    /\ LET r == get_content(contentCache, exCall.url, exCall.resp, now)
           out == IF r.out.raised THEN r.out ELSE extract_text(r.out.value)
       IN /\ contentCache' = r.cache
          /\ exCall' = [made |-> TRUE, url |-> exCall.url, resp |-> exCall.resp, out |-> out]
    /\ UNCHANGED << appVars, now, serpCache, log, serpCall, genCall >>

ExtractNext == CallExtract

SpecExtract == ExtractInit /\ [][ExtractNext]_vars

-----------------------------------------------------------------------------
(* C4 and C10: the extractor's failures and the length of its text *)

\* x[k] of a dict x that has k, else null
Field(x, k) == IF x.t = "obj" /\ HasKey(x, k) THEN Lookup(x, k) ELSE Null

\* absent, null or empty
Lacking(x) == ~Truthy(x)

\* every fragment of the primary_content pcv lacks its text
NoText(pcv) ==
    \/ Lacking(pcv)
    \/ pcv.t = "arr" /\ \A i \in 1..Len(pcv.v) :
           pcv.v[i].t = "obj" /\ Lacking(Field(pcv.v[i], K_text))

\* the parsed response lacks (or has empty or null) one of the fields result,
\* items, page_content, main_topic, primary_content, text on the way to the text
LacksField(data) ==
    LET result == Field(data, K_result) IN
    \/ Lacking(result)
    \/ /\ result.t = "arr" /\ result.v[1].t = "obj"
       /\ LET items == Field(result.v[1], K_items) IN
          \/ Lacking(items)
          \/ /\ items.t = "arr" /\ items.v[1].t = "obj"
             /\ LET page == Field(items.v[1], K_page_content) IN
                \/ Lacking(page)
                \/ /\ page.t = "obj"
                   /\ LET mt == Field(page, K_main_topic) IN
                      \/ Lacking(mt)
                      \/ /\ mt.t = "arr"
                         /\ \A i \in 1..Len(mt.v) :
                                mt.v[i].t = "obj" /\ NoText(Field(mt.v[i], K_primary_content))

\* an extraction failure: a non-200 HTTP status, an API status code other than
\* 20000, or a parsed response lacking one of the nested fields
ExtractionFailure(resp) ==
    /\ resp.kind = "http"
    /\ \/ resp.status # HTTP_OK
       \/ /\ resp.isJson /\ resp.data.t = "obj"
          /\ \/ Field(resp.data, K_status_code) # Num(API_OK)
             \/ LacksField(resp.data)

\* C4: on every extraction failure extract_text returns "" and does not raise
C4_FailureGivesEmptyString ==
    (exCall.made /\ ExtractionFailure(exCall.resp)) => exCall.out = Ok(Str(<<>>))

\* C10: the string extract_text returns has at most 4000 characters
C10_AtMost4000 ==
    (exCall.made /\ ~exCall.out.raised) =>
        (exCall.out.value.t = "str" /\ Len(exCall.out.value.v) <= MaxChars)

\* the text found is longer than 4000 characters and 4000 of them are returned
C10_Witness ==
    /\ exCall.made /\ ~exCall.out.raised
    /\ Len(exCall.out.value.v) = MaxChars
    /\ exCall.out.value.v[1] = "z" /\ exCall.out.value.v[MaxChars] = "z"
    /\ exCall.resp.data = ContentData(Num(API_OK), Arr(<< Obj(<< <<K_items, Arr(<< Obj(<<
           <<K_page_content, Obj(<< <<K_main_topic, Arr(<< Topic(Arr(<<
               TextFrag(Rep("z", MaxChars)), TextFrag(<<"x">>) >>)) >>)>> >>)>> >>) >>)>> >>) >>))

-----------------------------------------------------------------------------
(* json.loads on a str.  Escape sequences in strings, fractions, exponents   *)
(* and the NaN / Infinity literals are left out: no text of the model holds  *)
(* a backslash, a dot, or a letter next to a digit.                          *)

JsonWS == {" ", "\n", "\t", "\r"}
Digits == {"0", "1", "2", "3", "4", "5", "6", "7", "8", "9"}

DigitValue(c) ==
    CASE c = "0" -> 0 [] c = "1" -> 1 [] c = "2" -> 2 [] c = "3" -> 3 [] c = "4" -> 4
      [] c = "5" -> 5 [] c = "6" -> 6 [] c = "7" -> 7 [] c = "8" -> 8 [] c = "9" -> 9

PFail == [ok |-> FALSE]
POk(v, rest) == [ok |-> TRUE, val |-> v, rest |-> rest]

RECURSIVE JsonSkip(_)
JsonSkip(s) == IF s # <<>> /\ Head(s) \in JsonWS THEN JsonSkip(Tail(s)) ELSE s

\* the characters up to the closing quote; a raw control character is an error
RECURSIVE ScanString(_, _)
ScanString(s, acc) ==
    IF s = <<>> THEN PFail
    ELSE IF Head(s) = "\"" THEN POk(acc, Tail(s))
    ELSE IF Head(s) \in {"\n", "\t", "\r", "\\"} THEN PFail
    ELSE ScanString(Tail(s), Append(acc, Head(s)))

\* the number of digits s starts with
RECURSIVE LeadingDigits(_)
LeadingDigits(s) == IF s # <<>> /\ Head(s) \in Digits THEN 1 + LeadingDigits(Tail(s)) ELSE 0

RECURSIVE DigitsValue(_, _)
DigitsValue(s, acc) == IF s = <<>> THEN acc ELSE DigitsValue(Tail(s), 10 * acc + DigitValue(Head(s)))

\* -?(0|[1-9][0-9]*)
ScanNumber(s) ==
    LET neg == s # <<>> /\ Head(s) = "-"
        body == IF neg THEN Tail(s) ELSE s
        n == LeadingDigits(body)
        m == IF n > 0 /\ Head(body) = "0" THEN 1 ELSE n
        val == DigitsValue(SubSeq(body, 1, m), 0)
    IN IF n = 0 THEN PFail
       ELSE POk(Num(IF neg THEN 0 - val ELSE val), SubSeq(body, m + 1, Len(body)))

L_null == <<"n","u","l","l">>
L_true == <<"t","r","u","e">>
L_false == <<"f","a","l","s","e">>

Drop(s, n) == SubSeq(s, n + 1, Len(s))

RECURSIVE ParseValue(_)
RECURSIVE ParseElems(_, _)
RECURSIVE ParsePairs(_, _)

\* a value at the head of s (leading whitespace already skipped)
ParseValue(s) ==
    IF s = <<>> THEN PFail
    ELSE CASE Head(s) = "\"" ->
                 LET r == ScanString(Tail(s), <<>>)
                 IN IF r.ok THEN POk(Str(r.val), r.rest) ELSE PFail
           [] Head(s) = "{" ->
                 LET r == JsonSkip(Tail(s))
                 IN IF r # <<>> /\ Head(r) = "}" THEN POk(Obj(<<>>), Tail(r))
                    ELSE ParsePairs(r, <<>>)
           [] Head(s) = "[" ->
                 LET r == JsonSkip(Tail(s))
                 IN IF r # <<>> /\ Head(r) = "]" THEN POk(Arr(<<>>), Tail(r))
                    ELSE ParseElems(r, <<>>)
           [] Head(s) = "-" \/ Head(s) \in Digits -> ScanNumber(s)
           [] StartsWith(s, L_null) -> POk(Null, Drop(s, 4))
           [] StartsWith(s, L_true) -> POk([t |-> "bool", v |-> TRUE], Drop(s, 4))
           [] StartsWith(s, L_false) -> POk([t |-> "bool", v |-> FALSE], Drop(s, 5))
           [] OTHER -> PFail

\* the elements of an array and its closing bracket
ParseElems(s, acc) ==
    LET v == ParseValue(s) IN
    IF ~v.ok THEN PFail ELSE
    LET r == JsonSkip(v.rest) IN
    IF r = <<>> THEN PFail
    ELSE IF Head(r) = "]" THEN POk(Arr(Append(acc, v.val)), Tail(r))
    ELSE IF Head(r) = "," THEN ParseElems(JsonSkip(Tail(r)), Append(acc, v.val))
    ELSE PFail

\* the "key": value pairs of an object and its closing brace
ParsePairs(s, acc) ==
    IF s = <<>> \/ Head(s) # "\"" THEN PFail ELSE
    LET k == ScanString(Tail(s), <<>>) IN
    IF ~k.ok THEN PFail ELSE
    LET r == JsonSkip(k.rest) IN
    IF r = <<>> \/ Head(r) # ":" THEN PFail ELSE
    LET v == ParseValue(JsonSkip(Tail(r))) IN
    IF ~v.ok THEN PFail ELSE
    LET q == JsonSkip(v.rest) IN
    IF q = <<>> THEN PFail
    ELSE IF Head(q) = "}" THEN POk(Obj(Append(acc, <<k.val, v.val>>)), Tail(q))
    ELSE IF Head(q) = "," THEN ParsePairs(JsonSkip(Tail(q)), Append(acc, <<k.val, v.val>>))
    ELSE PFail

\* json.loads(s)
json_loads(s) ==
    LET v == ParseValue(JsonSkip(s)) IN
    IF ~v.ok THEN Raise("JSONDecodeError")
    ELSE IF JsonSkip(v.rest) # <<>> THEN Raise("JSONDecodeError")
    ELSE Ok(v.val)

-----------------------------------------------------------------------------
(* re.split(r"POST\s*\d+[:\-]", content) and generate_posts *)

L_POST == <<"P","O","S","T">>

RECURSIVE LeadingWS(_)
LeadingWS(s) == IF s # <<>> /\ Head(s) \in WS THEN 1 + LeadingWS(Tail(s)) ELSE 0

\* \s+ in place of \s*
MatchLenSpaced(s) ==
    IF ~StartsWith(s, L_POST) THEN 0 ELSE
    LET a == Drop(s, 4)
        w == LeadingWS(a)
        b == Drop(a, w)
        d == LeadingDigits(b)
        c == Drop(b, d)
    IN IF w > 0 /\ d > 0 /\ c # <<>> /\ Head(c) \in {":", "-"} THEN 4 + w + d + 1 ELSE 0

\* the length of the match of POST\s*\d+[:\-] at the head of s, 0 when there is none
MatchLen(s) ==
    IF ~StartsWith(s, L_POST) THEN 0 ELSE
    LET a == Drop(s, 4)
        w == LeadingWS(a)
        b == Drop(a, w)
        d == LeadingDigits(b)
        c == Drop(b, d)
    IN IF d > 0 /\ c # <<>> /\ Head(c) \in {":", "-"} THEN 4 + w + d + 1 ELSE 0

\* re.split: the pieces of s between the matches, cur being the piece so far
RECURSIVE ReSplit(_, _)
ReSplit(s, cur) ==
    IF s = <<>> THEN <<cur>>
    ELSE LET m == MatchLen(s)
         IN IF m > 0 THEN <<cur>> \o ReSplit(Drop(s, m), <<>>)
            ELSE ReSplit(Tail(s), Append(cur, Head(s)))

\* [p.strip() for p in parts if p.strip()]
RECURSIVE StripNonEmpty(_)
StripNonEmpty(parts) ==
    IF parts = <<>> THEN <<>>
    ELSE IF Strip(Head(parts)) # <<>> THEN <<Str(Strip(Head(parts)))>> \o StripNonEmpty(Tail(parts))
    ELSE StripNonEmpty(Tail(parts))

\* lines 150-156 on the text `content` of the completion
ParsePosts(content) ==
    LET data == json_loads(content)
        posts == IF data.raised THEN data ELSE Get(data.value, K_posts, Arr(<<>>))
    IN IF ~posts.raised THEN posts
       ELSE Ok(Arr(StripNonEmpty(ReSplit(content, <<>>))))

\* A chat completion: the API call raises, or the message has no content, or it
\* has text
LlmError == [kind |-> "error", content |-> <<>>]
LlmNone == [kind |-> "none", content |-> <<>>]
LlmText(c) == [kind |-> "text", content |-> c]

\* generate_posts cut to the number of posts asked for
generate_posts_cut(resp, n_posts) ==
    IF resp.kind = "error" THEN Raise("APIError")
    ELSE IF resp.kind = "none" THEN Raise("TypeError")
    ELSE LET r == ParsePosts(resp.content)
         IN IF r.value.t = "arr" THEN Ok(Arr(Prefix(r.value.v, n_posts))) ELSE r

\* generate_posts(business, sector, topic, brief, summary, n_posts), `resp` being
\* the completion the prompt gets; the arguments only enter the prompt
generate_posts(resp, n_posts) ==
    IF resp.kind = "error" THEN Raise("APIError")
    ELSE IF resp.kind = "none" THEN Raise("TypeError")
    ELSE ParsePosts(resp.content)

-----------------------------------------------------------------------------
(* The completions the language model returns: JSON texts in three layouts,  *)
(* their truncations, the same after a line of preface, and free text built  *)
(* from the pieces of the POST n: layout.                                    *)

MaxPosts == 2
MaxChunks == 5

RECURSIVE Flatten(_)
Flatten(ss) == IF ss = <<>> THEN <<>> ELSE Head(ss) \o Flatten(Tail(ss))

Compact == [comma |-> <<",">>, colon |-> <<":">>, pad |-> <<>>]
Spaced == [comma |-> <<",", " ">>, colon |-> <<":", " ">>, pad |-> <<>>]
Pretty == [comma |-> <<",", "\n", " ">>, colon |-> <<" ", ":", "\n">>, pad |-> <<"\n">>]
Layouts == { Compact, Spaced, Pretty }

Quoted(str) == <<"\"">> \o str \o <<"\"">>

DigitChar(d) == CASE d = 0 -> "0" [] d = 1 -> "1" [] d = 2 -> "2" [] d = 3 -> "3" [] d = 4 -> "4"
                  [] d = 5 -> "5" [] d = 6 -> "6" [] d = 7 -> "7" [] d = 8 -> "8" [] d = 9 -> "9"

RECURSIVE NatChars(_)
NatChars(n) == IF n < 10 THEN <<DigitChar(n)>> ELSE Append(NatChars(n \div 10), DigitChar(n % 10))

\* json.dumps(x) in layout ly
RECURSIVE Dumps(_, _)
Dumps(x, ly) ==
    CASE x.t = "null" -> L_null
      [] x.t = "bool" -> IF x.v THEN L_true ELSE L_false
      [] x.t = "num" -> IF x.v < 0 THEN <<"-">> \o NatChars(0 - x.v) ELSE NatChars(x.v)
      [] x.t = "str" -> Quoted(x.v)
      [] x.t = "arr" ->
            <<"[">> \o ly.pad
            \o Join(ly.comma, [i \in 1..Len(x.v) |-> Dumps(x.v[i], ly)])
            \o ly.pad \o <<"]">>
      [] x.t = "obj" ->
            <<"{">> \o ly.pad
            \o Join(ly.comma, [i \in 1..Len(x.v) |->
                                  Quoted(x.v[i][1]) \o ly.colon \o Dumps(x.v[i][2], ly)])
            \o ly.pad \o <<"}">>

A_ == <<"a">>
B_ == <<"b">>
PostTexts == { A_, B_, <<" ", "a", " ">>, <<"P","O","S","T"," ","1",":","a">> }

PostArrays == { Arr([i \in DOMAIN ps |-> Str(ps[i])]) : ps \in SeqsUpTo(PostTexts, MaxPosts) }

K_n == <<"n">>

JsonReplies ==
    { Obj(<< <<K_posts, pa>> >>) : pa \in PostArrays }
    \cup { Obj(<< <<K_n, Num(2)>>, <<K_posts, pa>> >>) : pa \in PostArrays }
    \cup { Obj(<< <<K_posts, Null>> >>), Obj(<< <<K_posts, Str(A_)>> >>),
           Obj(<< <<K_posts, Arr(<< Num(1) >>)>> >>), Obj(<<>>),
           Obj(<< <<K_text, Arr(<< Str(A_) >>)>> >>),
           Arr(<< Str(A_) >>), Str(A_), Num(12), Null }

Preface == <<"O","k",":","\n">>

\* a completion and, when its text is the JSON text of a value, that value
NotJson == [t |-> "text", v |-> <<>>]
Reply(origin, content) == [origin |-> origin, resp |-> LlmText(content)]

JsonCompletions == { Reply(x, Dumps(x, ly)) : x \in JsonReplies, ly \in Layouts }

Truncated ==
    UNION { { Reply(NotJson, Prefix(Dumps(x, Spaced), n)) :
                n \in 1..(Len(Dumps(x, Spaced)) - 1) } :
            x \in { y \in JsonReplies : y.t \in {"obj", "arr"} } }

Prefaced == { Reply(NotJson, Preface \o Dumps(x, Spaced)) : x \in JsonReplies }

Chunks == { L_POST, <<" ">>, <<"1">>, <<":">>, <<"-">>, A_ }

FreeText == { Reply(NotJson, Flatten(cs)) : cs \in SeqsUpTo(Chunks, MaxChunks) }

Example == <<"P","O","S","T"," ","1",":"," ","H","e","l","l","o"," ",
             "P","O","S","T"," ","2",":"," ","W","o","r","l","d">>

Layouted ==
    { Reply(NotJson, c) : c \in
        { Example,
          <<"p","o","s","t"," ","1",":"," ","a"," ","P","O","S","T","\n","2","-"," ","b","\n">>,
          <<"P","O","S","T","1",":","a","P","O","S","T"," "," ","2","2","-","b">>,
          <<"C","O","M","P","O","S","T"," ","3",":","b">>,
          <<"P","O","S","T"," ","1"," ",":","a">> } }

Completions ==
    JsonCompletions \cup Truncated \cup Prefaced \cup FreeText \cup Layouted
    \cup { [origin |-> NotJson, resp |-> LlmError], [origin |-> NotJson, resp |-> LlmNone] }

\* st.number_input("Numero post per argomento", 1, 20, 3)
NPosts == {1, 3}

-----------------------------------------------------------------------------
(* One call of generate_posts on each completion *)

PostsInit ==
    /\ SessionStart
    /\ now = 0 /\ serpCache = {} /\ contentCache = {}
    /\ log = <<>> /\ serpCall = NoCall /\ exCall = NoCall
    /\ \E c \in Completions, n \in NPosts :
           genCall = [made |-> FALSE, origin |-> c.origin, resp |-> c.resp, n_posts |-> n]

\* generate_posts(...): lines 143-156
CallGenerate ==
    /\ ~genCall.made
    /\ genCall' = [made |-> TRUE, origin |-> genCall.origin, resp |-> genCall.resp,
                   n_posts |-> genCall.n_posts,
                   out |-> generate_posts(genCall.resp, genCall.n_posts)]
    /\ UNCHANGED << appVars, now, serpCache, contentCache, log, serpCall, exCall >>

PostsNext == CallGenerate

SpecPosts == PostsInit /\ [][PostsNext]_vars

-----------------------------------------------------------------------------
(* C7: the strict-JSON path of generate_posts *)

\* C7: when the completion is the JSON text of an object whose "posts" is an
\* array, generate_posts returns that array, element for element, whatever the
\* number of posts asked for
C7_ReturnsThePostsArray ==
    (genCall.made /\ genCall.origin.t = "obj" /\ Field(genCall.origin, K_posts).t = "arr") =>
        genCall.out = Ok(Field(genCall.origin, K_posts))

\* one post was asked for, the object holds two, and both come back
C7_Witness ==
    /\ genCall.made /\ genCall.n_posts = 1
    /\ genCall.origin = Obj(<< <<K_posts, Arr(<< Str(A_), Str(B_) >>)>> >>)
    /\ genCall.resp.content =
           <<"{", "\"", "p", "o", "s", "t", "s", "\"", ":", " ",
             "[", "\"", "a", "\"", ",", " ", "\"", "b", "\"", "]", "}">>
    /\ genCall.out = Ok(Arr(<< Str(A_), Str(B_) >>))

-----------------------------------------------------------------------------
(* C8: the fallback path of generate_posts *)

\* s[i..j] is a marker: POST, white space, digits, then ":" or "-".  With
\* `exact` the white space is one blank, as the marker "POST <digits>:" is written
MarkerAt(s, i, j, exact) ==
    /\ i + 5 <= j /\ j <= Len(s)
    /\ SubSeq(s, i, i + 3) = L_POST
    /\ s[j] \in {":", "-"}
    /\ \E d \in (i + 4)..(j - 1) :
          /\ \A k \in (i + 4)..(d - 1) : s[k] \in WS
          /\ \A k \in d..(j - 1) : s[k] \in Digits
          /\ exact => (d = i + 5 /\ s[i + 4] = " ")

Markers(s, exact) == { m \in (1..Len(s)) \X (1..Len(s)) : MarkerAt(s, m[1], m[2], exact) }

\* the stretches of s outside the places in M, from left to right
Between(s, M) ==
    LET n == Cardinality(M)
        nth(k) == CHOOSE m \in M : Cardinality({ x \in M : x[1] < m[1] }) = k - 1
    IN [k \in 1..(n + 1) |->
           SubSeq(s, IF k = 1 THEN 1 ELSE nth(k - 1)[2] + 1,
                     IF k = n + 1 THEN Len(s) ELSE nth(k)[1] - 1)]

\* s without the white space around it
Trimmed(s) ==
    LET I == { i \in 1..Len(s) : s[i] \notin WS }
    IN IF I = {} THEN <<>>
       ELSE SubSeq(s, CHOOSE i \in I : \A j \in I : i <= j, CHOOSE i \in I : \A j \in I : j <= i)

NonEmpty(x) == x # <<>>

\* the trimmed, non-empty fragments of s between its markers, as a list of str
Fragments(s, exact) ==
    LET parts == Between(s, Markers(s, exact))
        kept == SelectSeq([k \in DOMAIN parts |-> Trimmed(parts[k])], NonEmpty)
    IN Arr([k \in DOMAIN kept |-> Str(kept[k])])

FallbackTaken == genCall.made /\ genCall.resp.kind = "text" /\ json_loads(genCall.resp.content).raised

\* C8 as stated: when the text fails json.loads, generate_posts returns the
\* trimmed non-empty fragments between the markers "POST <digits>:" / "POST <digits>-"
C8_SplitsOnPostSpaceDigits ==
    FallbackTaken => genCall.out = Ok(Fragments(genCall.resp.content, TRUE))

\* C8, amended: the same with the marker POST, any white space (none, several
\* blanks, line breaks), digits, then ":" or "-"
C8_SplitsOnPostDigits ==
    FallbackTaken => genCall.out = Ok(Fragments(genCall.resp.content, FALSE))

C8_Witness ==
    /\ genCall.made /\ genCall.resp.content = Example /\ FallbackTaken
    /\ genCall.out = Ok(Arr(<< Str(<<"H","e","l","l","o">>), Str(<<"W","o","r","l","d">>) >>))

-----------------------------------------------------------------------------
(* The script: the password gate (lines 15-29) and the planner (lines        *)
(* 161-227).  Every interaction of the user runs the script from the top.    *)

APP_PASSWORD == "segreta"
Passwords == { "segreta", "sbagliata", "" }

ERR_PASSWORD == "Password errata"
ERR_NO_TOPIC == "Inserisci almeno un argomento"

NoEvent == [kind |-> "none"]
Entra(p) == [kind |-> "entra", pwd |-> p]
Submit(f) == [kind |-> "submit", form |-> f]

\* the gate without st.stop()
GateOpen(auth, typed, ev) ==
    IF ~auth /\ ev.kind = "entra" /\ ev.pwd = APP_PASSWORD
    THEN [authenticated |-> TRUE, pwd |-> ev.pwd, stopped |-> FALSE, error |-> "", event |-> NoEvent]
    ELSE [authenticated |-> auth, pwd |-> IF ev.kind = "entra" THEN ev.pwd ELSE typed,
          stopped |-> FALSE,
          error |-> IF ~auth /\ ev.kind = "entra" THEN ERR_PASSWORD ELSE "", event |-> ev]

\* Lines 17-29 on the event ev: the flag and the typed password afterwards,
\* whether the script stopped at the gate, the error shown, and the event the
\* rest of the script sees (none after st.rerun())
Gate(auth, typed, ev) ==
    IF auth THEN [authenticated |-> TRUE, pwd |-> typed, stopped |-> FALSE, error |-> "", event |-> ev]
    ELSE IF ev.kind = "entra"
    THEN IF ev.pwd = APP_PASSWORD
         THEN [authenticated |-> TRUE, pwd |-> ev.pwd, stopped |-> FALSE, error |-> "", event |-> NoEvent]
         ELSE [authenticated |-> FALSE, pwd |-> ev.pwd, stopped |-> TRUE, error |-> ERR_PASSWORD, event |-> ev]
    ELSE [authenticated |-> FALSE, pwd |-> typed, stopped |-> TRUE, error |-> "", event |-> ev]

\* every line of the text, blank ones too
TopicsWithBlanks(topic_input) ==
    LET lines == Split(topic_input, "\n") IN [i \in DOMAIN lines |-> Strip(lines[i])]

\* [t.strip() for t in topic_input.split("\n") if t.strip()]
RECURSIVE StrippedLines(_)
StrippedLines(lines) ==
    IF lines = <<>> THEN <<>>
    ELSE IF Strip(Head(lines)) # <<>> THEN <<Strip(Head(lines))>> \o StrippedLines(Tail(lines))
    ELSE StrippedLines(Tail(lines))

\* topics, line 186
TopicsOf(topic_input) == StrippedLines(Split(topic_input, "\n"))

SOURCE_SITE == <<"D","a","l"," ","s","i","t","o"," ","w","e","b"," ","(","s","i","t","e",":",")">>
SOURCE_WEB == <<"D","a","l"," ","w","e","b"," ","(","q","u","e","r","y"," ",
                "g","e","n","e","r","i","c","a",")">>
DAL_SITO == <<"D","a","l"," ","s","i","t","o">>
SITE == <<" ","s","i","t","e",":">>

\* query, line 193
QueryOf(f, topic) ==
    IF StartsWith(f.source_mode, DAL_SITO) THEN topic \o SITE \o f.website ELSE topic

\* summarize_sources(topic, sources_text), `resp` being the completion
summarize_sources(resp) ==
    IF resp.kind = "error" THEN Raise("APIError")
    ELSE IF resp.kind = "none" THEN Ok(Null)
    ELSE Ok(Str(resp.content))

COMMA == <<",", " ">>

\* ", ".join(sources_urls): TypeError unless every element is a str
JoinUrls(urls) ==
    IF \E i \in DOMAIN urls : urls[i].t # "str" THEN Raise("TypeError")
    ELSE Ok(Join(COMMA, [i \in DOMAIN urls |-> urls[i].v]))

PlanRow(topic, fonte, post) ==
    [c \in {"Data pubblicazione", "Argomento", "Fonte", "Contenuto post", "Immagine"} |->
        CASE c = "Argomento" -> topic
          [] c = "Fonte" -> fonte
          [] c = "Contenuto post" -> post
          [] OTHER -> <<>>]

\* the rows with the first source only
RowsOfFirstSource(topic, urls, posts) ==
    LET ps == Iter(posts) IN IF ps.raised THEN ps ELSE
    IF ps.value = <<>> THEN Ok(<<>>) ELSE
    LET fonte == JoinUrls(Prefix(urls, 1)) IN IF fonte.raised THEN fonte ELSE
    IF \E i \in DOMAIN ps.value : ps.value[i].t # "str" THEN Raise("AttributeError")
    ELSE Ok([i \in DOMAIN ps.value |-> PlanRow(topic, fonte.value, Strip(ps.value[i].v))])

\* the rows lines 205-212 append for one topic
RowsOf(topic, urls, posts) ==
    LET ps == Iter(posts) IN IF ps.raised THEN ps ELSE
    IF ps.value = <<>> THEN Ok(<<>>) ELSE
    LET fonte == JoinUrls(urls) IN IF fonte.raised THEN fonte ELSE
    IF \E i \in DOMAIN ps.value : ps.value[i].t # "str" THEN Raise("AttributeError")
    ELSE Ok([i \in DOMAIN ps.value |-> PlanRow(topic, fonte.value, Strip(ps.value[i].v))])

\* an exception showing what was collected
PartialTable(collected) == [shown |-> TRUE, rows |-> collected]

\* what st.dataframe shows when an exception leaves the loop: lines 214-227
\* are not reached
TableOnException(collected) == NoTable

-----------------------------------------------------------------------------
(* What the user submits and what the services answer during a run *)

MaxInput == 3
MaxRuns == 1

TopicChars == { "a", " ", "\n" }
TopicInputs == SeqsUpTo(TopicChars, MaxInput)

WEBSITE == <<"w", ".", "i", "t">>

\* the form; business, sector and brief only enter the prompts
Forms ==
    { [submitted |-> TRUE, topic_input |-> inp, source_mode |-> sm, website |-> WEBSITE,
       n_posts |-> 3] : inp \in TopicInputs, sm \in {SOURCE_SITE, SOURCE_WEB} }

NoUrlItem == Obj(<< <<K_type, Str(ORGANIC)>> >>)

RunSerpAnswers ==
    { NetErr,
      HttpRaw(500),
      Http(HTTP_OK, SerpData(Num(API_OK), TwoOrganic)),
      Http(HTTP_OK, SerpData(Num(API_OK), Arr(<< SerpItem(ORGANIC, U2), NoUrlItem >>))),
      Http(HTTP_OK, SerpData(Num(API_OK), Null)) }

NullPage == Arr(<< Obj(<< <<K_items, Arr(<< Obj(<< <<K_page_content, Null>> >>) >>)>> >>) >>)

RunContentAnswers ==
    { HttpRaw(500),
      Http(HTTP_OK, ContentData(Num(API_OK), APage)),
      Http(HTTP_OK, ContentData(Num(API_OK), NullPage)) }

RunSummaries == { LlmError, LlmNone, LlmText(<<"s">>) }

RunCompletions ==
    { LlmError,
      LlmText(Dumps(Obj(<< <<K_posts, Arr(<< Str(A_), Str(<<" ", "b", " ">>) >>)>> >>), Spaced)),
      LlmText(Dumps(Obj(<< <<K_posts, Arr(<<>>)>> >>), Compact)),
      LlmText(Dumps(Obj(<< <<K_posts, Null>> >>), Compact)),
      LlmText(Dumps(Obj(<< <<K_posts, Arr(<< Num(1) >>)>> >>), Compact)),
      LlmText(<<"P", "O", "S", "T", " ", "1", ":", " ", "b">>) }

RunClock == { 0, TTL }

-----------------------------------------------------------------------------
(* The session *)

Init ==
    /\ SessionStart
    /\ now = 0 /\ serpCache = {} /\ contentCache = {}
    /\ log = <<>> /\ serpCall = NoCall /\ exCall = NoCall /\ genCall = NoCall

\* the script ends; its locals are gone
EndOfScript(scr, err) ==
    /\ screen' = scr /\ errorMsg' = err /\ pc' = "idle"
    /\ topics' = <<>> /\ ti' = 0 /\ serp' = <<>> /\ ri' = 0
    /\ sources_text' = <<>> /\ sources_urls' = <<>> /\ summary' = Null /\ rows' = <<>>

\* a run that does not reach the loop shows nothing of an earlier one
NothingShown ==
    /\ hist' = <<>> /\ searched' = <<>> /\ raisedAt' = ""
    /\ table' = NoTable /\ download' = FALSE

\* lines 183-191: the form is submitted
StartRun(f) ==
    LET ts == TopicsOf(f.topic_input) IN
    /\ form' = f /\ NothingShown
    /\ IF ts = <<>>
       THEN EndOfScript("form", ERR_NO_TOPIC)
       ELSE /\ screen' = "form" /\ errorMsg' = "" /\ pc' = "serp"
            /\ topics' = ts /\ ti' = 1 /\ rows' = <<>>
            /\ serp' = <<>> /\ ri' = 0
            /\ sources_text' = <<>> /\ sources_urls' = <<>> /\ summary' = Null

\* one run of the script, set off by the event ev
RunScript(ev) ==
    /\ pc = "idle"
    /\ event' = ev.kind
    /\ LET g == Gate(authenticated, pwd, ev) IN
       /\ authenticated' = g.authenticated
       /\ pwd' = g.pwd
       /\ IF g.stopped
          THEN EndOfScript("gate", g.error) /\ form' = NoForm /\ NothingShown
          ELSE IF g.event.kind = "submit"
          THEN StartRun(g.event.form)
          ELSE EndOfScript("form", g.error) /\ form' = NoForm /\ NothingShown
    /\ runs' = IF ev.kind = "submit" THEN runs + 1 ELSE runs
    /\ UNCHANGED << steps, now, serpCache, contentCache, calls >>

\* the page is loaded or reloaded
OpenPage == RunScript(NoEvent)

\* "Entra" is clicked with p typed in the password field
ClickEntra(p) == screen = "gate" /\ RunScript(Entra(p))

\* "Genera piano editoriale" is clicked with the form filled as f
SubmitForm(f) ==
    /\ runs < MaxRuns
    /\ screen \in {"form", "plan", "exception"}
    /\ RunScript(Submit(f))

\* an exception leaves the script at `step`
Abort(step) ==
    /\ EndOfScript("exception", "")
    /\ raisedAt' = step
    /\ table' = TableOnException(rows) /\ download' = FALSE

\* line 194: serp = optimizer.get_serp_results(query)
FetchSerp(resp) ==
    /\ pc = "serp"
    /\ LET query == QueryOf(form, topics[ti])
           r == get_serp_results(serpCache, query, resp, now)
       IN /\ serpCache' = r.cache
          /\ searched' = Append(searched, query)
          /\ steps' = steps \cup {"search"}
          /\ IF r.out.raised THEN Abort("search")
             ELSE /\ serp' = r.out.value.v /\ ri' = 1
                  /\ sources_text' = <<>> /\ sources_urls' = <<>>
                  /\ pc' = IF r.out.value.v = <<>> THEN "summarize" ELSE "extract"
                  /\ UNCHANGED << screen, errorMsg, topics, ti, summary, rows,
                                  raisedAt, table, download >>
    /\ UNCHANGED << runs, authenticated, pwd, event, form, hist, now, contentCache, calls >>

\* lines 198-200, one turn of the loop over serp
ExtractOne(resp) ==
    /\ pc = "extract"
    /\ steps' = steps \cup {"extract"}
    /\ LET u == SubKey(serp[ri], K_url) IN
       IF u.raised THEN Abort("extract") /\ UNCHANGED contentCache
       ELSE LET c == get_content(contentCache, u.value, resp, now)
                t == IF c.out.raised THEN c.out ELSE extract_text(c.out.value)
            IN /\ contentCache' = c.cache
               /\ IF t.raised THEN Abort("extract")
                  ELSE /\ sources_urls' = Append(sources_urls, u.value)
                       /\ sources_text' = sources_text \o t.value.v \o <<"\n">>
                       /\ ri' = ri + 1
                       /\ pc' = IF ri = Len(serp) THEN "summarize" ELSE "extract"
                       /\ UNCHANGED << screen, errorMsg, topics, ti, serp, summary, rows,
                                       raisedAt, table, download >>
    /\ UNCHANGED << runs, authenticated, pwd, event, form, hist, searched, now, serpCache, calls >>

\* line 202: summary = optimizer.summarize_sources(topic, sources_text)
Summarize(resp) ==
    /\ pc = "summarize"
    /\ steps' = steps \cup {"summarize"}
    /\ LET r == summarize_sources(resp) IN
       IF r.raised THEN Abort("summarize")
       ELSE /\ summary' = r.value /\ pc' = "generate"
            /\ UNCHANGED << screen, errorMsg, topics, ti, serp, ri, sources_text, sources_urls,
                            rows, raisedAt, table, download >>
    /\ UNCHANGED << runs, authenticated, pwd, event, form, hist, searched, now, serpCache,
                    contentCache, calls >>

\* lines 203-212: posts = optimizer.generate_posts(...) and the rows of the topic
GeneratePosts(resp) ==
    /\ pc = "generate"
    /\ steps' = steps \cup {"generate"}
    /\ LET g == generate_posts(resp, form.n_posts)
           rs == IF g.raised THEN g ELSE RowsOf(topics[ti], sources_urls, g.value)
       IN IF rs.raised THEN Abort("generate") /\ UNCHANGED hist
          ELSE /\ rows' = rows \o rs.value
               /\ hist' = Append(hist, [topic |-> topics[ti], results |-> serp, posts |-> g.value])
               /\ IF ti = Len(topics) THEN pc' = "display" /\ ti' = ti
                  ELSE pc' = "serp" /\ ti' = ti + 1
               /\ UNCHANGED << screen, errorMsg, topics, serp, ri, sources_text, sources_urls,
                               summary, raisedAt, table, download >>
    /\ UNCHANGED << runs, authenticated, pwd, event, form, searched, now, serpCache,
                    contentCache, calls >>

\* lines 214-227: the table and the download button
Display ==
    /\ pc = "display"
    /\ steps' = steps \cup {"table"}
    /\ table' = [shown |-> TRUE, rows |-> rows] /\ download' = TRUE
    /\ EndOfScript("plan", "")
    /\ UNCHANGED << runs, authenticated, pwd, event, form, hist, searched, raisedAt, now,
                    serpCache, contentCache, calls >>

RunTick == TickTo(RunClock)

Next ==
    \/ OpenPage
    \/ \E p \in Passwords : ClickEntra(p)
    \/ \E f \in Forms : SubmitForm(f)
    \/ \E resp \in RunSerpAnswers : FetchSerp(resp)
    \/ \E resp \in RunContentAnswers : ExtractOne(resp)
    \/ \E resp \in RunSummaries : Summarize(resp)
    \/ \E resp \in RunCompletions : GeneratePosts(resp)
    \/ Display
    \/ RunTick

Spec == Init /\ [][Next]_vars

-----------------------------------------------------------------------------
(* C1: the password gate *)

PipelineSteps == { "search", "extract", "summarize", "generate", "table" }

\* what holds of the gate in every state
GateState ==
    /\ screen = "none" => ~authenticated
    /\ authenticated => pwd = APP_PASSWORD
    /\ ~authenticated =>
          /\ steps \cap PipelineSteps = {} /\ pc = "idle" /\ runs = 0
          /\ table = NoTable /\ ~download
          /\ screen \in {"none", "gate"}
    /\ (~authenticated /\ event = "entra") =>
          /\ pwd # APP_PASSWORD
          /\ errorMsg = ERR_PASSWORD
          /\ screen = "gate"
          /\ ENABLED ClickEntra(APP_PASSWORD)

\* what holds of the gate in every step
GateStep ==
    /\ authenticated => authenticated'
    /\ (~authenticated /\ authenticated') => (event' = "entra" /\ pwd' = APP_PASSWORD)
    /\ (~authenticated /\ event' = "entra" /\ pwd' # APP_PASSWORD) => ~authenticated'

\* C1: the flag starts false, becomes true only on a submitted password equal to
\* APP_PASSWORD and is never reset; a wrong password leaves it false, shows
\* "Password errata" and leaves the gate open to another attempt; while the
\* flag is false no pipeline step runs and nothing of a plan is shown.
C1_SessionGate == ~authenticated /\ []GateState /\ [][GateStep]_vars

\* a wrong password was submitted and refused
C1_Witness ==
    /\ ~authenticated /\ event = "entra" /\ pwd = "sbagliata"
    /\ errorMsg = ERR_PASSWORD /\ screen = "gate"

-----------------------------------------------------------------------------
(* C9: the topics of a run *)

LineBreaks(s) == { <<i, i>> : i \in { j \in 1..Len(s) : s[j] = "\n" } }

\* the trimmed, non-empty lines of s, in order
TrimmedLines(s) ==
    LET lines == Between(s, LineBreaks(s))
    IN SelectSeq([k \in DOMAIN lines |-> Trimmed(lines[k])], NonEmpty)

\* C9: the topics processed are exactly the trimmed non-empty lines of the
\* submitted text, in order; every search is the query of one of them, none is
\* made for a blank entry; and when no topic remains the run stops with
\* "Inserisci almeno un argomento" before any call.
C9_TopicFiltering ==
    form.submitted =>
        LET expected == TrimmedLines(form.topic_input) IN
        /\ pc # "idle" =>
              /\ topics = expected
              /\ ti \in DOMAIN expected
              /\ topics[ti] # <<>> /\ Trimmed(topics[ti]) = topics[ti]
        /\ Len(hist) <= Len(expected)
        /\ \A k \in DOMAIN hist : hist[k].topic = expected[k]
        /\ Len(searched) <= Len(expected)
        /\ \A k \in DOMAIN searched : searched[k] = QueryOf(form, expected[k])
        /\ screen = "plan" => Len(hist) = Len(expected)
        /\ expected = <<>> =>
              /\ pc = "idle" /\ screen = "form" /\ errorMsg = ERR_NO_TOPIC
              /\ searched = <<>> /\ hist = <<>> /\ raisedAt = ""
              /\ table = NoTable /\ ~download
              /\ runs = 1 => steps = {}

\* a blank line before the only topic, which is searched without its blanks
C9_Witness ==
    /\ form.submitted /\ form.topic_input = <<" ", "\n", "a">>
    /\ form.source_mode = SOURCE_WEB
    /\ searched = << <<"a">> >>
    /\ Len(hist) = 1 /\ hist[1].topic = <<"a">>
    /\ screen = "plan"

\* only blank lines were submitted
C9_WitnessNoTopic ==
    /\ form.submitted /\ form.topic_input = <<" ", "\n", " ">>
    /\ errorMsg = ERR_NO_TOPIC /\ pc = "idle" /\ steps = {}

-----------------------------------------------------------------------------
(* C5: the rows of a completed run *)

\* xs joined by ", "
RECURSIVE CommaJoined(_)
CommaJoined(xs) ==
    IF xs = <<>> THEN <<>>
    ELSE IF Len(xs) = 1 THEN xs[1]
    ELSE CommaJoined(SubSeq(xs, 1, Len(xs) - 1)) \o <<",", " ">> \o xs[Len(xs)]

\* the URLs of the results of a search, in order
UrlsOfResults(results) == [i \in DOMAIN results |-> Field(results[i], K_url).v]

\* how many rows the first k topics gave
RECURSIVE RowsBefore(_)
RowsBefore(k) == IF k <= 1 THEN 0 ELSE RowsBefore(k - 1) + Len(hist[k - 1].posts.v)

\* C5: the table of a completed run holds, topic after topic in input order,
\* one row per post generate_posts returned for the topic, in order, and nothing
\* else; each row has the topic as Argomento, the ", "-joined URLs of all the
\* results of the topic's search as Fonte, the trimmed post as Contenuto post,
\* and empty Data pubblicazione and Immagine.
C5_RowsOfTheRun ==
    screen = "plan" =>
        /\ table.shown /\ download
        /\ [k \in DOMAIN hist |-> hist[k].topic] = TrimmedLines(form.topic_input)
        /\ \A k \in DOMAIN hist : hist[k].posts.t = "arr"
        /\ Len(table.rows) = RowsBefore(Len(hist) + 1)
        /\ \A k \in DOMAIN hist : \A i \in DOMAIN hist[k].posts.v :
              LET row == table.rows[RowsBefore(k) + i] IN
              /\ row["Argomento"] = hist[k].topic
              /\ row["Fonte"] = CommaJoined(UrlsOfResults(hist[k].results))
              /\ row["Contenuto post"] = Trimmed(hist[k].posts.v[i].v)
              /\ row["Data pubblicazione"] = <<>>
              /\ row["Immagine"] = <<>>

\* two topics, two results and two posts each: four rows
C5_Witness ==
    /\ screen = "plan" /\ Len(hist) = 2
    /\ \A k \in 1..2 : Len(hist[k].results) = 2 /\ Len(hist[k].posts.v) = 2
    /\ Len(table.rows) = 4
    /\ table.rows[3]["Fonte"] = U1 \o <<",", " ">> \o U2

-----------------------------------------------------------------------------
(* C6: a run that raises *)

\* C6: when a step of the pipeline raises, the run is over at that step: no
\* table is displayed and no download is offered, whatever was collected for
\* the topics processed before.
C6_NoPartialResults ==
    /\ raisedAt # "" =>
          /\ pc = "idle" /\ screen = "exception"
          /\ table = NoTable /\ ~download
    /\ (table.shown \/ download) => (raisedAt = "" /\ screen = "plan")

\* the second topic raises after the first gave its rows
C6_Witness ==
    /\ raisedAt \in {"search", "extract", "summarize", "generate"}
    /\ Len(hist) = 1 /\ Len(hist[1].posts.v) = 2
    /\ table = NoTable /\ ~download

====
